---- MODULE Spec2Model ----
(***************************************************************************)
(* Model of the Modbus connection manager of knot-virtualthing             *)
(* (src/src/modbus-interface.c): the process-wide globals, the two public  *)
(* lifecycle calls modbus_start / modbus_stop and the two event-loop       *)
(* callbacks attempt_connect / on_disconnected.                            *)
(*                                                                         *)
(* Heap objects (timers, I/O watches, driver handles) are kept in          *)
(* sequences; a pointer is an index into its sequence and NULL is 0.       *)
(* An object is never removed from its sequence: releasing it marks it     *)
(* "freed"/"destroyed", so dangling pointers and leaked objects stay       *)
(* visible.                                                                *)
(*                                                                         *)
(* The event loop (ell) and the Modbus library are the environment: a      *)
(* timer is one-shot and fires while it is armed, a watch reports a        *)
(* hang-up while it is live and is taken out of the loop when it does,     *)
(* modbus_connect, l_io_new and l_timeout_create_ms succeed or fail as     *)
(* the environment decides.  l_io_destroy is taken to release the watch    *)
(* without calling its disconnect handler.  Every handler runs to          *)
(* completion (single-threaded loop), so each is one action.               *)
(***************************************************************************)
EXTENDS Integers, Sequences, FiniteSets, TLC

\* ------------------------------------------------------------------ bounds
MaxStarts == 2
MaxIos == 1
MaxCalls == 2
MaxUrlLen == 10

\* --------------------------------------------------------- program constants
NULL == 0
EINVAL == 22
ENOMEM == 12
ECONNREFUSED == 111
TCP == 0
RTU == 1
TCP_PREFIX_SIZE == 6
RTU_PREFIX_SIZE == 9
RECONNECT_TIMEOUT == 5
START_TIMEOUT_MS == 1
TYPE_BOOL == 1
TYPE_BYTE == 8
TYPE_U16 == 16
TYPE_U32 == 32
TYPE_U64 == 64

\* strings are sequences of character codes; the terminating NUL is implicit
TCP_PREFIX == <<116, 99, 112, 58, 47, 47>>
RTU_PREFIX == <<115, 101, 114, 105, 97, 108, 58, 47, 47>>

\* the argument lists modbus_start is called with:
\*   ("tcp://h", 17, cb 1, cb 2, data 7), ("serial://d", 17, NULL, NULL, data 8),
\*   ("tcp", 17, cb 1, cb 2, data 7)
StartArgs ==
  { [url |-> <<116, 99, 112, 58, 47, 47, 104>>, slave_id |-> 17,
     connected_cb |-> 1, disconnected_cb |-> 2, user_data |-> 7],
    [url |-> <<115, 101, 114, 105, 97, 108, 58, 47, 47, 100>>, slave_id |-> 17,
     connected_cb |-> NULL, disconnected_cb |-> NULL, user_data |-> 8],
    [url |-> <<116, 99, 112>>, slave_id |-> 17,
     connected_cb |-> 1, disconnected_cb |-> 2, user_data |-> 7] }

VARIABLES
  connection_interface, \* "none" | "tcp" | "rtu": the driver table copied in
  connect_to,           \* struct l_timeout *: index into timers, or NULL
  modbus_io,            \* struct l_io *: index into ios, or NULL
  modbus_ctx,           \* modbus_t *: index into ctxs, or NULL
  conn_cb,              \* stored connected callback, or NULL
  disconn_cb,           \* stored disconnected callback, or NULL
  errno,                \* the C library's errno
  timers,               \* every l_timeout ever created
  ios,                  \* every l_io ever created
  ctxs,                 \* every modbus_t ever created
  calls,                \* callback invocations made so far, in order
  last,                 \* the operation that ran last and what it returned
  lifecycle,            \* the lifecycle state the operations imply
  passed_user_data,     \* user_data argument of the last successful start
  aborted,              \* undefined behaviour has crashed the process
  out,                  \* the caller's knot_value_type buffer (as a number)
  rd                    \* arguments and driver answer of the last pure call

vars == << connection_interface, connect_to, modbus_io, modbus_ctx, conn_cb,
           disconn_cb, errno, timers, ios, ctxs, calls, last,
           lifecycle, passed_user_data, aborted, out, rd >>

\* ------------------------------------------------------------ pure helpers
Min(a, b) == IF a < b THEN a ELSE b

CharAt(s, i) == IF i <= Len(s) THEN s[i] ELSE 0

\* strncmp(a, b, n) from position i on: difference of the first differing
\* characters among the first n, stopping after a NUL
RECURSIVE strncmp_from(_, _, _, _)
strncmp_from(a, b, n, i) ==
  IF i > n THEN 0
  ELSE IF CharAt(a, i) # CharAt(b, i) THEN CharAt(a, i) - CharAt(b, i)
  ELSE IF CharAt(a, i) = 0 THEN 0
  ELSE strncmp_from(a, b, n, i + 1)

strncmp(a, b, n) == strncmp_from(a, b, n, 1)

\* a wrong prefix length: the scheme name alone would be accepted
parse_url_scheme_only(url) ==
  IF strncmp(url, TCP_PREFIX, TCP_PREFIX_SIZE - 3) = 0 THEN TCP
  ELSE IF strncmp(url, RTU_PREFIX, RTU_PREFIX_SIZE - 3) = 0 THEN RTU
  ELSE -EINVAL

\* every URL that is not a serial one taken for a TCP one
parse_url_tcp_by_default(url) ==
  IF strncmp(url, RTU_PREFIX, RTU_PREFIX_SIZE) = 0 THEN RTU ELSE TCP

parse_url(url) ==
  IF strncmp(url, TCP_PREFIX, TCP_PREFIX_SIZE) = 0 THEN TCP
  ELSE IF strncmp(url, RTU_PREFIX, RTU_PREFIX_SIZE) = 0 THEN RTU
  ELSE -EINVAL

DriverOf(kind) == IF kind = TCP THEN "tcp" ELSE "rtu"

\* ------------------------------------------------- event-loop primitives
Dangling(objs, p) == p # NULL /\ objs[p].st \in {"freed", "destroyed"}

\* ok is ell's answer: a new armed timer, or NULL and no timer
l_timeout_create_ms(ts, ms, ok) ==
  IF ok THEN Append(ts, [st |-> "armed", ms |-> ms, user_data |-> NULL])
  ELSE ts

l_timeout_modify(ts, t, seconds) ==
  IF t = NULL \/ Dangling(ts, t) THEN ts
  ELSE [ts EXCEPT ![t] = [@ EXCEPT !.st = "armed", !.ms = seconds * 1000]]

l_timeout_remove(ts, t) ==
  IF t = NULL \/ Dangling(ts, t) THEN ts
  ELSE [ts EXCEPT ![t] = [@ EXCEPT !.st = "freed"]]

l_io_destroy(is, io) ==
  IF io = NULL \/ Dangling(is, io) THEN is
  ELSE [is EXCEPT ![io] = [@ EXCEPT !.st = "freed"]]

SetCtx(cs, c, state) ==
  IF c = NULL \/ Dangling(cs, c) THEN cs
  ELSE [cs EXCEPT ![c] = [@ EXCEPT !.st = state]]

\* a callback invocation is logged with what the callback finds when it is
\* entered: whether the connection of modbus_ctx is open and whether a
\* watch is registered in modbus_io
Invoke(log, kind, fn, arg, open, watch) ==
  IF fn # NULL
  THEN Append(log, [kind |-> kind, fn |-> fn, arg |-> arg,
                    open |-> open, watch |-> watch])
  ELSE log

\* modbus_start, line 180: the first attempt is scheduled, not made
arm_first_attempt(ts, ok) == l_timeout_create_ms(ts, START_TIMEOUT_MS, ok)

\* attempt_connect, line 90, and on_disconnected, line 80: try again later
rearm_reconnect_forgotten(ts, t) == ts

rearm_reconnect(ts, t) == l_timeout_modify(ts, t, RECONNECT_TIMEOUT)

\* a release or use of an already released object is undefined behaviour:
\* it either crashes the process or goes unnoticed
AfterUB(hit) == aborted' \in (IF hit THEN BOOLEAN ELSE {FALSE})

\* ------------------------------------------------------------------- Init
Init ==
  /\ connection_interface = "none"
  /\ connect_to = NULL
  /\ modbus_io = NULL
  /\ modbus_ctx = NULL
  /\ conn_cb = NULL
  /\ disconn_cb = NULL
  /\ errno = 0
  /\ timers = <<>>
  /\ ios = <<>>
  /\ ctxs = <<>>
  /\ calls = <<>>
  /\ last = [op |-> "init", ret |-> 0]
  /\ lifecycle = "idle"
  /\ passed_user_data = NULL
  /\ aborted = FALSE
  /\ out = 0
  /\ rd = [op |-> "none"]

\* --------------------------------------------------------- modbus_start
modbus_start(url, slave_id, connected_cb, disconnected_cb, user_data, createOk, slaveOk, timerOk) ==
  LET kind == parse_url(url)
      newCtx == [st |-> "closed",
                 slave |-> IF slaveOk THEN slave_id ELSE -1]
  IN
  /\ ~aborted
  /\ Len(ctxs) < MaxStarts
  /\ IF kind \notin {TCP, RTU} THEN
       /\ last' = [op |-> "modbus_start", ret |-> -EINVAL]
       /\ UNCHANGED << connection_interface, modbus_ctx, ctxs, errno, conn_cb,
                       disconn_cb, timers, connect_to, lifecycle,
                       passed_user_data >>
     ELSE
       /\ connection_interface' = DriverOf(kind)
       /\ IF ~createOk THEN
            /\ modbus_ctx' = NULL
            /\ errno' = ENOMEM
            /\ last' = [op |-> "modbus_start", ret |-> -ENOMEM]
            /\ UNCHANGED << ctxs, conn_cb, disconn_cb, timers, connect_to,
                            lifecycle, passed_user_data >>
          ELSE
            /\ ctxs' = Append(ctxs, newCtx)
            /\ modbus_ctx' = Len(ctxs) + 1
            /\ IF ~slaveOk THEN
                 /\ errno' = EINVAL
                 /\ last' = [op |-> "modbus_start", ret |-> -EINVAL]
                 /\ UNCHANGED << conn_cb, disconn_cb, timers, connect_to,
                                 lifecycle, passed_user_data >>
               ELSE
                 /\ conn_cb' = connected_cb
                 /\ disconn_cb' = disconnected_cb
                 /\ timers' = arm_first_attempt(timers, timerOk)
                 /\ connect_to' = IF timerOk THEN Len(timers) + 1 ELSE NULL
                 /\ last' = [op |-> "modbus_start", ret |-> 0]
                 /\ lifecycle' = "connecting"
                 /\ passed_user_data' = user_data
                 /\ UNCHANGED errno
  /\ UNCHANGED << modbus_io, ios, calls, aborted >>

\* ---------------------------------------------------------- modbus_stop
modbus_stop ==
  /\ ~aborted
  /\ timers' = l_timeout_remove(timers, connect_to)
  /\ ios' = l_io_destroy(ios, modbus_io)
  /\ ctxs' = SetCtx(ctxs, modbus_ctx, "destroyed")
  /\ AfterUB(\/ Dangling(timers, connect_to)
             \/ Dangling(ios, modbus_io)
             \/ Dangling(ctxs, modbus_ctx))
  /\ last' = [op |-> "modbus_stop", ret |-> 0]
  /\ lifecycle' = "stopped"
  /\ UNCHANGED << connection_interface, connect_to, modbus_io, modbus_ctx,
                  conn_cb, disconn_cb, errno, calls, passed_user_data >>

\* ------------------------------------------------------ attempt_connect
\* the timer `to` expires; connected and ioOk are what modbus_connect and
\* l_io_new answer
attempt_connect(to, connected, ioOk) ==
  LET fired == [timers EXCEPT ![to] = [@ EXCEPT !.st = "idle"]]
      user_data == timers[to].user_data
  IN
  /\ ~aborted
  /\ to \in 1..Len(timers)
  /\ timers[to].st = "armed"
  /\ modbus_ctx = NULL => ~connected
  /\ AfterUB(Dangling(ctxs, modbus_ctx))
  /\ IF ~connected THEN
       /\ errno' = (IF modbus_ctx = NULL THEN EINVAL ELSE ECONNREFUSED)
       /\ timers' = rearm_reconnect(fired, to)
       /\ last' = [op |-> "attempt_connect", ret |-> -1]
       /\ UNCHANGED << ctxs, ios, modbus_io, calls, lifecycle >>
     ELSE
       /\ ioOk => Len(ios) < MaxIos
       /\ conn_cb # NULL => Len(calls) < MaxCalls
       /\ timers' = fired
       /\ ctxs' = SetCtx(ctxs, modbus_ctx, "connected")
       /\ ios' = IF ioOk
                 THEN Append(ios, [st |-> "live", user_data |-> NULL])
                 ELSE ios
       /\ modbus_io' = IF ioOk THEN Len(ios) + 1 ELSE NULL
       /\ calls' = Invoke(calls, "connected", conn_cb, user_data, TRUE, ioOk)
       /\ last' = [op |-> "attempt_connect", ret |-> 0]
       /\ lifecycle' = "connected"
       /\ UNCHANGED errno
  /\ UNCHANGED << connection_interface, connect_to, modbus_ctx, conn_cb,
                  disconn_cb, passed_user_data >>

\* ------------------------------------------------------ on_disconnected
\* the watch `io` reports that its descriptor hung up
on_disconnected(io) ==
  LET user_data == ios[io].user_data
      hup == [ios EXCEPT ![io] = [@ EXCEPT !.st = "hup"]]
  IN
  /\ ~aborted
  /\ io \in 1..Len(ios)
  /\ ios[io].st = "live"
  /\ disconn_cb # NULL => Len(calls) < MaxCalls
  /\ ctxs' = SetCtx(ctxs, modbus_ctx, "closed")
  /\ calls' = Invoke(calls, "disconnected", disconn_cb, user_data, FALSE,
                     modbus_io # NULL /\ ~Dangling(ios, modbus_io))
  /\ ios' = l_io_destroy(hup, modbus_io)
  /\ modbus_io' = NULL
  /\ timers' = rearm_reconnect(timers, connect_to)
  /\ AfterUB(\/ Dangling(ctxs, modbus_ctx)
             \/ Dangling(ios, modbus_io)
             \/ Dangling(timers, connect_to))
  /\ last' = [op |-> "on_disconnected", ret |-> 0]
  /\ lifecycle' = "connecting"
  /\ UNCHANGED << connection_interface, connect_to, modbus_ctx, conn_cb,
                  disconn_cb, errno, passed_user_data >>

\* ------------------------------------------------------------------ Next
Start ==
  \E a \in StartArgs, createOk \in BOOLEAN, slaveOk \in BOOLEAN,
     timerOk \in BOOLEAN :
    /\ modbus_start(a.url, a.slave_id, a.connected_cb, a.disconnected_cb,
                    a.user_data, createOk, slaveOk, timerOk)
    /\ UNCHANGED << out, rd >>

Stop == modbus_stop /\ UNCHANGED << out, rd >>

TimerFires ==
  \E to \in 1..Len(timers), connected \in BOOLEAN, ioOk \in BOOLEAN :
    attempt_connect(to, connected, ioOk) /\ UNCHANGED << out, rd >>

WatchFires ==
  \E io \in 1..Len(ios) : on_disconnected(io) /\ UNCHANGED << out, rd >>

Next == Start \/ Stop \/ TimerFires \/ WatchFires

Spec == Init /\ [][Next]_vars

\* the event loop fires every armed timer, and the device is reachable
\* again and again: an attempt whose modbus_connect succeeds is not
\* postponed forever
ConnectSucceeds ==
  \E to \in 1..Len(timers), ioOk \in BOOLEAN :
    attempt_connect(to, TRUE, ioOk) /\ UNCHANGED << out, rd >>

LiveSpec == Spec /\ WF_vars(TimerFires) /\ SF_vars(ConnectSucceeds)

\* ------------------------------------------------- the Driver Selector
\* URLs handed to parse_url: every prefix, up to MaxUrlLen characters, of
\* "tcp://host:502", "serial://ttyS0", "tcpx://h", "udp://h", "serial:/d",
\* "Tcp://h", "xtcp://h", "serial//d", "tcp:/h", " tcp://h"
BaseUrls ==
  { <<116, 99, 112, 58, 47, 47, 104, 111, 115, 116, 58, 53, 48, 50>>,
    <<115, 101, 114, 105, 97, 108, 58, 47, 47, 116, 116, 121, 83, 48>>,
    <<116, 99, 112, 120, 58, 47, 47, 104>>,
    <<117, 100, 112, 58, 47, 47, 104>>,
    <<115, 101, 114, 105, 97, 108, 58, 47, 100>>,
    <<84, 99, 112, 58, 47, 47, 104>>,
    <<120, 116, 99, 112, 58, 47, 47, 104>>,
    <<115, 101, 114, 105, 97, 108, 47, 47, 100>>,
    <<116, 99, 112, 58, 47, 104>>,
    <<32, 116, 99, 112, 58, 47, 47, 104>> }

TestUrls ==
  UNION { { SubSeq(u, 1, n) : n \in 0..Min(Len(u), MaxUrlLen) } : u \in BaseUrls }

Quiet ==
  /\ connection_interface = "none"
  /\ connect_to = NULL
  /\ modbus_io = NULL
  /\ modbus_ctx = NULL
  /\ conn_cb = NULL
  /\ disconn_cb = NULL
  /\ timers = <<>>
  /\ ios = <<>>
  /\ ctxs = <<>>
  /\ calls = <<>>
  /\ last = [op |-> "init", ret |-> 0]
  /\ lifecycle = "idle"
  /\ passed_user_data = NULL
  /\ aborted = FALSE

UrlInit ==
  /\ Quiet
  /\ errno = 0
  /\ out = 0
  /\ \E u \in TestUrls : rd = [op |-> "parse_url", url |-> u, done |-> FALSE, ret |-> 0]

ParseUrl ==
  /\ rd.op = "parse_url"
  /\ ~rd.done
  /\ rd' = [rd EXCEPT !.done = TRUE, !.ret = parse_url(rd.url)]
  /\ UNCHANGED << connection_interface, connect_to, modbus_io, modbus_ctx,
                  conn_cb, disconn_cb, errno, timers, ios, ctxs, calls, last,
                  lifecycle, passed_user_data, aborted, out >>

UrlNext == ParseUrl

UrlSpec == UrlInit /\ [][UrlNext]_vars

\* --------------------------------------------------- the Register Reader
\* bitwise or and left shift of the C integers involved (all non-negative)
RECURSIVE BitOr(_, _)
BitOr(a, b) ==
  IF a = 0 THEN b
  ELSE IF b = 0 THEN a
  ELSE (IF a % 2 = 1 \/ b % 2 = 1 THEN 1 ELSE 0) + 2 * BitOr(a \div 2, b \div 2)

RECURSIVE Shl(_, _)
Shl(x, i) == IF i = 0 THEN x ELSE Shl(2 * x, i - 1)

\* lines 124-125: for (i = 0; i < 8; i++) tmp.val_byte |= byte_tmp[i] << i;
\* val_byte is a uint8_t, so every assignment keeps the low eight bits
RECURSIVE pack_from(_, _, _)
pack_from(byte_tmp, i, val_byte) ==
  IF i >= 8 THEN val_byte
  ELSE pack_from(byte_tmp, i + 1,
                 BitOr(val_byte, Shl(byte_tmp[i + 1], i)) % 256)

pack_byte_msb_first(byte_tmp) ==
  pack_from([i \in 1..8 |-> byte_tmp[9 - i]], 0, 0)

pack_byte(byte_tmp) == pack_from(byte_tmp, 0, 0)

\* lines 143-149: the buffer is written only when rc is not negative
store_result_always(rc, tmp, old) == tmp

store_result(rc, tmp, old) == IF rc < 0 THEN old ELSE tmp

\* the width selectors read is called with, valid and not
BitOffsets == {TYPE_BOOL, TYPE_BYTE, TYPE_U16, TYPE_U32, TYPE_U64, 0, 2, 24}

\* errno values a failing transport primitive leaves (EIO, ETIMEDOUT)
ReadErrnos == {5, 110}

\* what a driver primitive leaves in its destination: on success the value
\* read (byte reads: eight coil readings, each 0 or 1); on failure nothing is
\* stored, so tmp keeps its zeroes and byte_tmp its uninitialised content
Answers(bit_offset, ok) ==
  IF bit_offset = TYPE_BYTE THEN
    IF ok THEN [1..8 -> {0, 1}]
    ELSE { <<0, 0, 0, 0, 0, 0, 0, 0>>, <<255, 1, 0, 7, 128, 0, 64, 3>> }
  ELSE IF ~ok THEN {0}
  ELSE IF bit_offset = TYPE_BOOL THEN {0, 1}
  ELSE IF bit_offset = TYPE_U16 THEN {0, 4660, 65535}
  ELSE IF bit_offset = TYPE_U32 THEN {0, 305419896}
  ELSE IF bit_offset = TYPE_U64 THEN {0, 2000000000}
  ELSE {0}

\* the transport driver's read primitives: a count of what was read, or -1
\* with errno set to the transport's diagnostic code
driver_read(primitive, ok, e) ==
  IF ok
  THEN [rc |-> (IF primitive = "read_byte" THEN 8 ELSE 1), errno |-> errno]
  ELSE [rc |-> -1, errno |-> e]

modbus_read_data(reg_addr, bit_offset, ok, raw, e) ==
  LET primitive ==
        IF bit_offset = TYPE_BOOL THEN "read_bool"
        ELSE IF bit_offset = TYPE_BYTE THEN "read_byte"
        ELSE IF bit_offset = TYPE_U16 THEN "read_u16"
        ELSE IF bit_offset = TYPE_U32 THEN "read_u32"
        ELSE IF bit_offset = TYPE_U64 THEN "read_u64"
        ELSE "none"
      drv == driver_read(primitive, ok, e)
      rc0 == IF primitive = "none" THEN -EINVAL ELSE drv.rc
      errno1 == IF primitive = "none" THEN errno ELSE drv.errno
      tmp == IF primitive = "none" THEN 0
             ELSE IF primitive = "read_byte" THEN pack_byte(raw)
             ELSE raw
      rc == IF rc0 < 0 THEN -errno1 ELSE rc0
  IN
  /\ ~aborted
  /\ errno' = errno1
  /\ out' = store_result(rc0, tmp, out)
  /\ last' = [op |-> "modbus_read_data", ret |-> rc]
  /\ rd' = [op |-> "modbus_read_data", reg_addr |-> reg_addr,
            bit_offset |-> bit_offset, primitive |-> primitive,
            ok |-> (primitive # "none" /\ ok), raw |-> raw]
  /\ UNCHANGED << connection_interface, connect_to, modbus_io, modbus_ctx,
                  conn_cb, disconn_cb, timers, ios, ctxs, calls, lifecycle,
                  passed_user_data, aborted >>

\* read is called on an established connection, with any value left in
\* errno and in the caller's buffer
Connected ==
  /\ connection_interface = "tcp"
  /\ connect_to = 1
  /\ modbus_io = 1
  /\ modbus_ctx = 1
  /\ conn_cb = NULL
  /\ disconn_cb = NULL
  /\ timers = <<[st |-> "idle", ms |-> START_TIMEOUT_MS, user_data |-> NULL]>>
  /\ ios = <<[st |-> "live", user_data |-> NULL]>>
  /\ ctxs = <<[st |-> "connected", slave |-> 17]>>
  /\ calls = <<>>
  /\ last = [op |-> "attempt_connect", ret |-> 0]
  /\ lifecycle = "connected"
  /\ passed_user_data = NULL
  /\ aborted = FALSE

ReadInit ==
  /\ Connected
  /\ errno \in {0, EINVAL, ECONNREFUSED}
  /\ out \in {0, 170}
  /\ \E bit_offset \in BitOffsets, ok \in BOOLEAN, e \in ReadErrnos :
       \E raw \in Answers(bit_offset, ok) :
         rd = [op |-> "pending", reg_addr |-> 100, bit_offset |-> bit_offset,
               ok |-> ok, raw |-> raw, e |-> e]

Read ==
  /\ rd.op = "pending"
  /\ modbus_read_data(rd.reg_addr, rd.bit_offset, rd.ok, rd.raw, rd.e)

ReadNext == Read

ReadSpec == ReadInit /\ [][ReadNext]_vars

\* =================================================================
\* Properties
\* =================================================================
ArmedTimers == { t \in 1..Len(timers) : timers[t].st = "armed" }
LiveIos == { i \in 1..Len(ios) : ios[i].st = "live" }
CtxReleased == modbus_ctx = NULL \/ ctxs[modbus_ctx].st = "destroyed"
Live == lifecycle \in {"connecting", "connected"}

\* C1: the reconnect timer and the I/O watch are never both live, and which
\* of {no handle, armed timer, watch} holds matches the lifecycle state:
\* timer while connecting, watch while connected, none before start or
\* after stop.
C1_HandlesMirrorLifecycle ==
  /\ ~(ArmedTimers # {} /\ LiveIos # {})
  /\ lifecycle = "connecting" => (ArmedTimers # {} /\ LiveIos = {})
  /\ lifecycle = "connected" => (LiveIos # {} /\ ArmedTimers = {})
  /\ lifecycle \in {"idle", "stopped"} => (ArmedTimers = {} /\ LiveIos = {})

\* C2: at most one reconnect timer is armed and at most one I/O watch is
\* registered, and no timer is armed (no attempt_connect pending) while a
\* watch is registered.
C2_AtMostOneOutstanding ==
  /\ Cardinality(ArmedTimers) <= 1
  /\ Cardinality(LiveIos) <= 1
  /\ LiveIos # {} => ArmedTimers = {}

\* C3: a start while a connection context is live returns an error and
\* leaves the driver handle, timer, watch and callbacks unchanged.
C3_SecondStartRejected ==
  [][ (Live /\ Start) =>
        /\ last'.ret < 0
        /\ UNCHANGED << modbus_ctx, connect_to, modbus_io, conn_cb,
                        disconn_cb, timers, ios, ctxs >> ]_vars

\* C4: stop before any start, or a stop directly after a stop, is a no-op:
\* it releases nothing a second time (so it cannot crash) and invokes no
\* callback.
C4_StopIdempotent ==
  [][ (last.op \in {"init", "modbus_stop"} /\ Stop) =>
        UNCHANGED << timers, ios, ctxs, calls, aborted >> ]_vars

\* C5: once stop has returned no timer is armed, no watch is registered and
\* the driver handle is destroyed, and until the next start neither
\* attempt_connect nor on_disconnected runs and no callback is invoked.
C5_NothingAfterStop ==
  [][ /\ last'.op = "modbus_stop" =>
           (ArmedTimers' = {} /\ LiveIos' = {} /\ CtxReleased')
      /\ lifecycle = "stopped" =>
           (~TimerFires /\ ~WatchFires /\ calls' = calls) ]_vars

\* C6: callback invocations strictly alternate, starting with connected.
C6_CallbacksAlternate ==
  \A i \in 1..Len(calls) :
    calls[i].kind = (IF i % 2 = 1 THEN "connected" ELSE "disconnected")

\* C7: every callback invocation receives the user_data that was passed to
\* start.
C7_UserDataPassedThrough ==
  \A i \in 1..Len(calls) : calls[i].arg = passed_user_data

\* C8: when attempt_connect runs and the connect primitive fails, the timer
\* that fired is re-armed for the fixed interval of 5 (seconds), no watch
\* is registered, neither callback is invoked and the lifecycle state is
\* left as it was (connecting, for the timer of a live connection).
C8_FailedConnectRearms ==
  [][ \A to \in 1..Len(timers), ioOk \in BOOLEAN :
        attempt_connect(to, FALSE, ioOk) =>
          /\ timers'[to].st = "armed"
          /\ timers'[to].ms = 5 * 1000
          /\ \A t \in 1..Len(timers) : t # to => timers'[t] = timers[t]
          /\ ios' = ios
          /\ modbus_io' = modbus_io
          /\ calls' = calls
          /\ lifecycle' = lifecycle
          /\ LiveIos' = LiveIos
    ]_vars

C8_Witness ==
  /\ last.op = "attempt_connect"
  /\ last.ret = -1
  /\ lifecycle = "connecting"
  /\ connect_to # NULL
  /\ timers[connect_to].st = "armed"
  /\ timers[connect_to].ms = 5000
  /\ LiveIos = {}
  /\ calls = <<>>

\* C9: a successful start only arms a one-shot timer of 1 millisecond and
\* returns 0; neither start nor stop runs attempt_connect or
\* on_disconnected, so they connect nothing, register no watch, re-arm no
\* timer and invoke no callback.
C9_StartStopAreAsynchronous ==
  [][ /\ Start =>
           /\ calls' = calls
           /\ ios' = ios
           /\ modbus_io' = modbus_io
           /\ \A t \in 1..Len(timers) : timers'[t] = timers[t]
           /\ \A c \in 1..Len(ctxs) : ctxs'[c] = ctxs[c]
           /\ \A c \in 1..Len(ctxs') : ctxs'[c].st # "connected" \/ c <= Len(ctxs)
           /\ last'.ret = 0 =>
                /\ Len(timers') = Len(timers) + 1
                /\ connect_to' = Len(timers')
                /\ timers'[connect_to'].st = "armed"
                /\ timers'[connect_to'].ms = 1
                /\ errno' = errno
           /\ last'.ret # 0 => timers' = timers
      /\ Stop =>
           /\ calls' = calls
           /\ errno' = errno
           /\ Len(ios') = Len(ios) /\ Len(timers') = Len(timers)
           /\ \A t \in 1..Len(timers) :
                timers'[t] = timers[t] \/ timers'[t].st = "freed"
           /\ \A c \in 1..Len(ctxs) :
                ctxs'[c] = ctxs[c] \/ ctxs'[c].st = "destroyed"
    ]_vars

\* C10: when start fails because binding the slave identifier fails, it
\* returns the driver's error and leaves no live context: the handle it
\* created does not remain allocated, no timer is armed by it and no
\* callbacks are stored.
C10_FailedBindLeavesNothing ==
  [][ \A a \in StartArgs, timerOk \in BOOLEAN :
        ( /\ parse_url(a.url) \in {TCP, RTU}
          /\ modbus_start(a.url, a.slave_id, a.connected_cb,
                          a.disconnected_cb, a.user_data, TRUE, FALSE,
                          timerOk) ) =>
          /\ last'.ret = -errno' /\ last'.ret < 0
          /\ \A c \in 1..Len(ctxs') :
               c > Len(ctxs) => ctxs'[c].st = "destroyed"
          /\ timers' = timers
          /\ conn_cb' = conn_cb /\ disconn_cb' = disconn_cb
    ]_vars

\* C11: a read whose width selector is none of 1, 8, 16, 32 and 64 invokes
\* no transport primitive and returns -EINVAL, whatever errno held before.
C11_InvalidWidthRejected ==
  [][ (Read /\ rd.bit_offset \notin {1, 8, 16, 32, 64}) =>
        (last'.ret = -22 /\ rd'.primitive = "none")
    ]_vars

\* C12: a successful byte read stores the byte whose bit i (bit 0 the least
\* significant) is the i-th coil reading c[i]; the eight readings
\* 1,0,1,0,0,0,0,0 give 5.
BitOf(v, i) == (v \div Shl(1, i)) % 2

C12_BytePacking ==
  [][ (Read /\ rd.bit_offset = 8 /\ rd.ok) =>
        /\ last'.ret >= 0
        /\ out' \in 0..255
        /\ \A i \in 0..7 : BitOf(out', i) = rd.raw[i + 1]
        /\ (rd.raw = <<1, 0, 1, 0, 0, 0, 0, 0>> => out' = 5)
    ]_vars

C12_Witness ==
  /\ rd.op = "modbus_read_data"
  /\ rd.bit_offset = 8
  /\ rd.ok
  /\ rd.raw = <<1, 0, 1, 0, 0, 0, 0, 0>>
  /\ last.ret >= 0
  /\ out = 5

\* C13: parse_url answers TCP for every URL that begins with "tcp://", RTU
\* for every URL that begins with "serial://" and -EINVAL for every other
\* string, proper prefixes of the schemes and the empty string included.
HasPrefix(url, p) == Len(url) >= Len(p) /\ SubSeq(url, 1, Len(p)) = p

C13_DriverSelector ==
  (rd.op = "parse_url" /\ rd.done) =>
    rd.ret = (IF HasPrefix(rd.url, <<116, 99, 112, 58, 47, 47>>) THEN 0
              ELSE IF HasPrefix(rd.url, <<115, 101, 114, 105, 97, 108, 58, 47, 47>>)
                   THEN 1
              ELSE -22)

C13_Witness ==
  /\ rd.op = "parse_url"
  /\ rd.done
  /\ rd.url = <<116, 99, 112>>
  /\ rd.ret = -22

\* C14: after one successful start with a connected callback, when the
\* first connect attempt (timer at 1 ms) fails, the timer is re-armed for 5
\* seconds and nothing else happens; when the next attempt succeeds, a
\* watch is registered, then the connected callback is invoked, exactly
\* once, the connection being open and the watch in place; the
\* disconnected callback is not invoked and no timer stays armed.
FreshStart ==
  /\ Len(ctxs) = 1 /\ modbus_ctx = 1
  /\ Len(timers) = 1 /\ connect_to = 1
  /\ ios = <<>> /\ calls = <<>>
  /\ lifecycle = "connecting"
  /\ conn_cb # NULL

C14_FailThenSucceed ==
  [][ \A ioOk \in BOOLEAN :
        /\ ( /\ FreshStart
             /\ timers[1].ms = 1
             /\ attempt_connect(1, FALSE, ioOk) ) =>
             /\ timers' = <<[st |-> "armed", ms |-> 5000, user_data |-> NULL]>>
             /\ ios' = <<>>
             /\ calls' = <<>>
        /\ ( /\ FreshStart
             /\ timers[1].ms = 5000
             /\ attempt_connect(1, TRUE, ioOk) ) =>
             /\ ArmedTimers' = {}
             /\ modbus_io' # NULL
             /\ LiveIos' = {modbus_io'}
             /\ Len(calls') = 1
             /\ calls'[1].kind = "connected"
             /\ calls'[1].fn = conn_cb
             /\ calls'[1].open
             /\ calls'[1].watch
    ]_vars

\* C15: after a successful start and until stop is called, whenever the
\* manager is not connected the reconnect timer is armed; and if timers
\* fire and modbus_connect can succeed, a manager that was started with a
\* connected callback and is not connected eventually invokes it, unless
\* stop is called first or modbus_connect cannot succeed (there is no
\* handle to connect, or the call log of the model is full).
Retrying ==
  /\ connect_to # NULL
  /\ timers[connect_to].st # "freed"
  /\ lifecycle = "connecting"

ConnectedReported ==
  /\ lifecycle = "connected"
  /\ calls # <<>>
  /\ calls[Len(calls)].kind = "connected"

StopCalled == connect_to # NULL /\ timers[connect_to].st = "freed"

C15_RetriesNeverStop ==
  /\ [](Retrying => timers[connect_to].st = "armed")
  /\ ((Retrying /\ conn_cb # NULL /\ Len(calls) < MaxCalls)
        ~> (\/ ConnectedReported
            \/ StopCalled
            \/ modbus_ctx = NULL
            \/ Len(calls) >= MaxCalls))

\* C16: when a driver read primitive fails, read returns the negation of
\* the errno that primitive set, a negative number; on no failure path
\* (a failed primitive, an unsupported width) is the result non-negative.
C16_FailureIsNegativeErrno ==
  [][ (Read /\ ~(rd.bit_offset \in {1, 8, 16, 32, 64} /\ rd.ok)) =>
        /\ last'.ret < 0
        /\ (rd.bit_offset \in {1, 8, 16, 32, 64} => last'.ret = -rd.e)
    ]_vars

\* C17: when a watch reports the loss of the connection while the manager
\* is connected, on_disconnected closes the driver connection, then invokes
\* the disconnected callback once (the connection closed, the watch still
\* in place), then releases the watch; afterwards no watch is registered
\* and the reconnect timer is armed for exactly 5 seconds.
C17_DisconnectSequence ==
  [][ \A io \in 1..Len(ios) :
        (lifecycle = "connected" /\ on_disconnected(io)) =>
          /\ modbus_ctx # NULL
          /\ ctxs'[modbus_ctx].st = "closed"
          /\ IF disconn_cb = NULL THEN calls' = calls
             ELSE /\ Len(calls') = Len(calls) + 1
                  /\ calls'[Len(calls')].kind = "disconnected"
                  /\ calls'[Len(calls')].fn = disconn_cb
                  /\ ~calls'[Len(calls')].open
                  /\ calls'[Len(calls')].watch
          /\ modbus_io' = NULL
          /\ LiveIos' = {}
          /\ connect_to # NULL
          /\ timers'[connect_to].st = "armed"
          /\ timers'[connect_to].ms = 5000
    ]_vars

\* C18: whenever the connected callback is invoked, a watch with the
\* disconnect handler is registered on the connection's descriptor, also
\* when creating the watch or setting its handler fails.
C18_WatchBeforeConnected ==
  \A i \in 1..Len(calls) : calls[i].kind = "connected" => calls[i].watch

\* C19: a read that returns a negative result leaves the caller's buffer as
\* it was; the buffer changes only when the result is non-negative, and
\* then it holds the value the driver has just read.
ValueRead(r) ==
  IF r.bit_offset = 8
  THEN r.raw[1] + 2 * r.raw[2] + 4 * r.raw[3] + 8 * r.raw[4] + 16 * r.raw[5]
       + 32 * r.raw[6] + 64 * r.raw[7] + 128 * r.raw[8]
  ELSE r.raw

C19_NoPartialWrite ==
  [][ Read =>
        /\ (last'.ret < 0 => out' = out)
        /\ (out' # out =>
              (last'.ret >= 0 /\ rd.ok /\ out' = ValueRead(rd)))
        /\ ((rd.bit_offset \in {1, 8, 16, 32, 64} /\ rd.ok) =>
              out' = ValueRead(rd))
    ]_vars

C19_Witness ==
  /\ rd.op = "modbus_read_data"
  /\ rd.primitive = "read_u16"
  /\ ~rd.ok
  /\ last.ret = -110
  /\ out = 170

\* C20: a start whose URL begins with neither "tcp://" nor "serial://"
\* returns -EINVAL and changes nothing: no driver is selected, no driver
\* handle is created, no callback is stored and no timer is armed.
C20_BadUrlChangesNothing ==
  [][ \A a \in StartArgs :
        ( /\ last'.op = "modbus_start"
          /\ ~HasPrefix(a.url, <<116, 99, 112, 58, 47, 47>>)
          /\ ~HasPrefix(a.url, <<115, 101, 114, 105, 97, 108, 58, 47, 47>>) )
        =>
          \A createOk \in BOOLEAN, slaveOk \in BOOLEAN, timerOk \in BOOLEAN :
            modbus_start(a.url, a.slave_id, a.connected_cb,
                         a.disconnected_cb, a.user_data, createOk, slaveOk,
                         timerOk)
            =>
              /\ last'.ret = -22
              /\ UNCHANGED << connection_interface, connect_to, modbus_io,
                              modbus_ctx, conn_cb, disconn_cb, errno, timers,
                              ios, ctxs, calls >>
    ]_vars

C20_Witness ==
  /\ last = [op |-> "modbus_start", ret |-> -22]
  /\ Len(ctxs) = 1
  /\ ctxs[1].st = "connected"
  /\ modbus_io # NULL
  /\ LiveIos = {modbus_io}
  /\ connection_interface = "rtu"

====
